---- MODULE Spec2Model ----
(***************************************************************************)
(* ElectronHttpExecutor (packages/electron-auto-updater/src/               *)
(* electronHttpExecutor.ts): one logical download or request call, its     *)
(* redirect recursion, the per-attempt socket timeout handlers, and the    *)
(* promises the caller observes.                                           *)
(***************************************************************************)
EXTENDS Integers, Sequences, FiniteSets, TLC

\* ---------------------------------------------------------------- bounds
\* Longest chain of attempts the modelled server lets one logical call issue.
MaxAttempts == 3
\* Longest chain issued against the server that redirects every attempt.
MaxChain == 13
\* Most socket timers that fire within one logical call.
MaxTimeouts == 2

\* ------------------------------------------------------------- constants
\* Download redirect bound imported from electron-builder-http.
maxRedirects == 5
\* Literal bound tested by doApiRequest.
ApiMaxRedirects == 10

\* ---------------------------------------------------------------- inputs
Destinations == {"/tmp/out.zip", "/tmp/other.zip"}
StartUrls == {"https://h1/a.yml"}
Locations == {"http://h2/r", "/rel.yml"}
\* A token is null or a string, kept as its sequence of characters.
NullToken == [given |-> FALSE, chars |-> <<>>]
Token(chars) == [given |-> TRUE, chars |-> chars]
Tokens == {NullToken, Token(<<"B", "a", "s", "i", "c", " ", "x">>), Token(<<"x", "y">>)}
Methods == {"GET"}
CallerProtocols == {"http:", "https:"}
DownloadStatuses == {200, 302, 404, 500}
ApiStatuses == {200, 204, 302, 404, 500}
ContentTypes == {"null", "text/plain", "application/json"}
Bodies == {"", "{\"a\":1}", "version: 1.2.3"}

VARIABLES
  kind,          \* "idle", "download" or "request": the logical call made
  destination,   \* download(): the destination argument
  url,           \* doDownload(): the url argument of the latest attempt
  options,       \* doApiRequest(): the options object of the latest attempt
  callerOptions, \* the options object the caller passed to request
  passed,        \* that object and its headers as they were when passed
  headers,       \* the headers mapping shared by every options object
  token,         \* doApiRequest(): the token argument
  attempts,      \* one record per net.request issued, in order
  promises,      \* the BluebirdPromise objects created, in order
  piped,         \* attempts for which configurePipes was invoked
  resp,          \* response whose body listeners are attached
  last,          \* the event handled by the latest step
  fired          \* number of socket timers that have fired

vars == <<kind, destination, url, options, callerOptions, passed, headers, token,
          attempts, promises, piped, resp, last, fired>>

\* ---------------------------------------------------------------- values
Value(tag, num, text) == [tag |-> tag, num |-> num, text |-> text]
NoValue == Value("none", 0, <<>>)
NullValue == Value("null", 0, <<>>)
UndefinedValue == Value("undefined", 0, <<>>)
TimeoutError == Value("Request timed out", 0, <<>>)
TransportError == Value("transport error", 0, <<>>)
WriteError == Value("write error", 0, <<>>)
ParseError == Value("parse error", 0, <<>>)
StatusError(u, status) == Value("Cannot download", status, <<u>>)
TooManyRedirects(bound) == Value("Too many redirects", bound, <<>>)
NotFoundError(o) == Value("HttpError 404", 404, <<o.method, o.hostname, o.path>>)
HttpError(status, body) == Value("HttpError", status, <<body>>)

NoEvent == [ev |-> "none", att |-> 0, status |-> 0, loc |-> "null"]
Event(ev, k, status, loc) == [ev |-> ev, att |-> k, status |-> status, loc |-> loc]
NoResp == [status |-> 0, contentType |-> "null", data |-> ""]
NoOptions == [protocol |-> "null", hostname |-> "null", path |-> "null", method |-> "null"]

\* url.parse: the components Object.assign copies over the options.
parseUrl(u) ==
  CASE u = "https://h1/a.yml" -> [protocol |-> "https:", hostname |-> "h1", path |-> "/a.yml"]
    [] u = "http://h2/r"      -> [protocol |-> "http:", hostname |-> "h2", path |-> "/r"]
    [] OTHER                  -> [protocol |-> "null", hostname |-> "null", path |-> u]

\* ------------------------------------------------------------- promises
Pending == [state |-> "pending", value |-> NoValue]

\* A promise whose resolve/reject overwrite an earlier settlement.
RECURSIVE SettleAlways(_, _, _, _)
SettleAlways(ps, k, st, v) ==
  LET ps2 == [ps EXCEPT ![k] = [state |-> st, value |-> v]]
  IN IF k > 1 THEN SettleAlways(ps2, k - 1, st, v) ELSE ps2

\* resolve/reject of promise k; promise k-1 was chained on it by
\* .then(resolve).catch(reject), so its settlement is handed outwards.
RECURSIVE Settle(_, _, _, _)
Settle(ps, k, st, v) ==
  IF ps[k].state # "pending" THEN ps
  ELSE LET ps2 == [ps EXCEPT ![k] = [state |-> st, value |-> v]]
       IN IF k > 1 THEN Settle(ps2, k - 1, st, v) ELSE ps2

\* The callback with its test of error inverted.
DownloadCallbackInverted(ps, dest, error) ==
  IF error # NullValue
    THEN Settle(ps, 1, "resolved", Value("path", 0, <<dest>>))
    ELSE Settle(ps, 1, "rejected", error)

\* The callback download() hands to doDownload.
DownloadCallback(ps, dest, error) ==
  IF error = NullValue
    THEN Settle(ps, 1, "resolved", Value("path", 0, <<dest>>))
    ELSE Settle(ps, 1, "rejected", error)

\* A handler that aborts without passing the error on.
FailSilent(k, error) == promises

\* callback/reject as bound in the attempt k of the running call.
Fail(k, error) ==
  IF kind = "download" THEN DownloadCallback(promises, destination, error)
  ELSE Settle(promises, k, "rejected", error)

\* ------------------------------------------------------------- attempts
\* net.request(...) followed by addTimeOutHandler(request, callback) and
\* request.on("error", callback).
NewAttempt(count) ==
  [phase |-> "created", redirectCount |-> count, timeoutHandler |-> TRUE]

\* The socket of an attempt is open and its timeout handler is registered.
TimerArmed(a) ==
  /\ a.timeoutHandler
  /\ a.phase \in {"waiting", "redirected", "reading", "piping", "ignored"}

\* response.statusCode >= 400 in doDownload.
IsErrorStatus(status) == status >= 400

\* A header lookup that never finds the location header.
HasLocationNever(loc) == FALSE

\* safeGetHeader(response, "location") != null
HasLocation(loc) == loc # "null"

\* redirectCount++ as the argument of the recursive doDownload call.
DownloadNextCount(count) == count

\* doApiRequest's recursive call leaves redirectCount to its default.
ApiNextCount(count) == 0

\* The authorization header doApiRequest writes.
startsWith(chars, prefix) ==
  /\ Len(chars) >= Len(prefix)
  /\ SubSeq(chars, 1, Len(prefix)) = prefix

Authorization(chars) ==
  IF startsWith(chars, <<"B", "a", "s", "i", "c">>)
    THEN chars
    ELSE <<"t", "o", "k", "e", "n", " ">> \o chars

Init ==
  /\ kind = "idle"
  /\ destination = "null"
  /\ url = "null"
  /\ options = NoOptions
  /\ callerOptions = NoOptions
  /\ passed = [options |-> NoOptions, headers |-> [authorization |-> <<>>]]
  /\ headers = [authorization |-> <<>>]
  /\ token = NullToken
  /\ attempts = <<>>
  /\ promises = <<>>
  /\ piped = <<>>
  /\ resp = NoResp
  /\ last = NoEvent
  /\ fired = 0

\* download(url, destination, options): doDownload(url, destination, 0, ...).
Download(u, dest) ==
  /\ kind = "idle"
  /\ kind' = "download"
  /\ destination' = dest
  /\ url' = u
  /\ attempts' = <<NewAttempt(0)>>
  /\ promises' = <<Pending>>
  /\ last' = Event("call", 1, 0, "null")
  /\ UNCHANGED <<options, callerOptions, passed, headers, token, piped, resp, fired>>

\* A head of doApiRequest that leaves the protocol as it was given.
ApiOptionsKept(o) == o

\* The head of doApiRequest (lines 79-86): it writes through the options
\* object it was given, and through that object's headers mapping.
ApiHeaders(hs, t) ==
  IF t.given THEN [hs EXCEPT !.authorization = Authorization(t.chars)] ELSE hs

ApiOptions(o) == [o EXCEPT !.protocol = "https:"]

\* request: doApiRequest(options, token, requestProcessor) with redirectCount 0.
Request(u, proto, m, t) ==
  /\ kind = "idle"
  /\ kind' = "request"
  /\ token' = t
  /\ headers' = ApiHeaders(headers, t)
  /\ options' = ApiOptions([protocol |-> proto, hostname |-> parseUrl(u).hostname,
                            path |-> parseUrl(u).path, method |-> m])
  /\ callerOptions' = options'
  /\ passed' = [options |-> [protocol |-> proto, hostname |-> parseUrl(u).hostname,
                              path |-> parseUrl(u).path, method |-> m],
                headers |-> headers]
  /\ attempts' = <<NewAttempt(0)>>
  /\ promises' = <<Pending>>
  /\ last' = Event("call", 1, 0, "null")
  /\ UNCHANGED <<destination, url, piped, resp, fired>>

\* request.on("socket"): addTimeOutHandler arms the socket timeout.
Socket(k) ==
  /\ k \in DOMAIN attempts
  /\ attempts[k].phase = "created"
  /\ attempts' = [attempts EXCEPT ![k].phase = "waiting"]
  /\ last' = Event("socket", k, 0, "null")
  /\ UNCHANGED <<kind, destination, url, options, callerOptions, passed, headers, token,
                 promises, piped, resp, fired>>

\* The socket timeout callback: callback(new Error(...)); request.abort().
Timeout(k) ==
  /\ k \in DOMAIN attempts
  /\ TimerArmed(attempts[k])
  /\ fired < MaxTimeouts
  /\ fired' = fired + 1
  /\ promises' = Fail(k, TimeoutError)
  /\ attempts' = [attempts EXCEPT ![k].phase = "aborted"]
  /\ last' = Event("timeout", k, 0, "null")
  /\ UNCHANGED <<kind, destination, url, options, callerOptions, passed, headers, token,
                 piped, resp>>

\* request.on("error", callback): the transport fails before a response.
TransportFailure(k) ==
  /\ k \in DOMAIN attempts
  /\ attempts[k].phase \in {"created", "waiting"}
  /\ promises' = Fail(k, TransportError)
  /\ attempts' = [attempts EXCEPT ![k].phase = "errored"]
  /\ last' = Event("error", k, 0, "null")
  /\ UNCHANGED <<kind, destination, url, options, callerOptions, passed, headers, token,
                 piped, resp, fired>>

\* The response callback of doDownload.
DownloadResponse(k, status, loc) ==
  /\ kind = "download"
  /\ k \in DOMAIN attempts
  /\ attempts[k].phase = "waiting"
  /\ last' = Event("response", k, status, loc)
  /\ IF IsErrorStatus(status) THEN
       /\ promises' = DownloadCallback(promises, destination, StatusError(url, status))
       /\ attempts' = [attempts EXCEPT ![k].phase = "ignored"]
       /\ UNCHANGED <<url, piped>>
     ELSE IF HasLocation(loc) THEN
       IF attempts[k].redirectCount < maxRedirects THEN
         /\ url' = loc
         /\ attempts' = Append([attempts EXCEPT ![k].phase = "redirected",
                                                ![k].redirectCount = @ + 1],
                               NewAttempt(DownloadNextCount(attempts[k].redirectCount)))
         /\ UNCHANGED <<promises, piped>>
       ELSE
         /\ promises' = DownloadCallback(promises, destination,
                                         TooManyRedirects(maxRedirects))
         /\ attempts' = [attempts EXCEPT ![k].phase = "ignored"]
         /\ UNCHANGED <<url, piped>>
     ELSE
       /\ piped' = Append(piped, k)
       /\ attempts' = [attempts EXCEPT ![k].phase = "piping"]
       /\ UNCHANGED <<url, promises>>
  /\ UNCHANGED <<kind, destination, options, callerOptions, passed, headers, token, resp, fired>>

\* configurePipes: the write to the destination completes and reports error.
WriteDone(k, error) ==
  /\ kind = "download"
  /\ k \in DOMAIN attempts
  /\ attempts[k].phase = "piping"
  /\ promises' = DownloadCallback(promises, destination, error)
  /\ attempts' = [attempts EXCEPT ![k].phase = "finished"]
  /\ last' = Event(IF error = NullValue THEN "written" ELSE "writeError", k, 0, "null")
  /\ UNCHANGED <<kind, destination, url, options, callerOptions, passed, headers, token,
                 piped, resp, fired>>

\* Object.assign({}, options, parseUrl(redirectUrl)): every parsed component,
\* null ones included, replaces the copied option of the same name.
MergeOptions(o, parsed) ==
  [protocol |-> parsed.protocol, hostname |-> parsed.hostname,
   path |-> parsed.path, method |-> o.method]

\* The response callback of doApiRequest.
ApiResponse(k, status, loc, contentType) ==
  /\ kind = "request"
  /\ k \in DOMAIN attempts
  /\ attempts[k].phase = "waiting"
  /\ last' = Event("response", k, status, loc)
  /\ LET afterNotFound ==
           IF status = 404
             THEN Settle(promises, k, "rejected", NotFoundError(options))
             ELSE promises
     IN
     IF status = 204 THEN
       /\ promises' = Settle(promises, k, "resolved", UndefinedValue)
       /\ attempts' = [attempts EXCEPT ![k].phase = "ignored"]
       /\ UNCHANGED <<options, headers, resp>>
     ELSE IF HasLocation(loc) THEN
       IF attempts[k].redirectCount > ApiMaxRedirects THEN
         /\ promises' = Settle(afterNotFound, k, "rejected",
                               TooManyRedirects(ApiMaxRedirects))
         /\ attempts' = [attempts EXCEPT ![k].phase = "ignored"]
         /\ UNCHANGED <<options, headers, resp>>
       ELSE
         /\ options' = ApiOptions(MergeOptions(options, parseUrl(loc)))
         /\ headers' = ApiHeaders(headers, token)
         /\ attempts' = Append([attempts EXCEPT ![k].phase = "redirected"],
                               NewAttempt(ApiNextCount(attempts[k].redirectCount)))
         /\ promises' = Append(afterNotFound, Pending)
         /\ UNCHANGED resp
     ELSE
       /\ promises' = afterNotFound
       /\ attempts' = [attempts EXCEPT ![k].phase = "reading"]
       /\ resp' = [status |-> status, contentType |-> contentType, data |-> ""]
       /\ UNCHANGED <<options, headers>>
  /\ UNCHANGED <<kind, destination, url, callerOptions, passed, token, piped, fired>>

\* contentType.find((i) => i.indexOf("json") !== -1)
isJson(contentType) == contentType # "null" /\ contentType \in {"application/json"}

\* options.path.includes(".yml")
isYaml(path) == path \in {"/a.yml", "/rel.yml"}

\* JSON.parse: the parsed value, or the exception it throws.
JsonParse(body) ==
  IF body = "{\"a\":1}" THEN Value("json", 0, <<body>>) ELSE ParseError

\* js-yaml safeLoad of a non-empty body.
safeLoad(body) == Value("yaml", 0, <<body>>)

\* The value with the YAML test ahead of the content-type test.
ParseBodyYamlFirst(data, contentType, path) ==
  IF isYaml(path) THEN safeLoad(data)
  ELSE IF isJson(contentType) THEN JsonParse(data)
  ELSE Value("text", 0, <<data>>)

\* isJson ? JSON.parse(data) : isYaml ? safeLoad(data) : data
ParseBody(data, contentType, path) ==
  IF isJson(contentType) THEN JsonParse(data)
  ELSE IF isYaml(path) THEN safeLoad(data)
  ELSE Value("text", 0, <<data>>)

\* The body of the "end" listener: what it passes to resolve or reject;
\* an exception thrown by a parser is caught and passed to reject.
EndOutcome(status, data, contentType, path) ==
  IF status >= 400 THEN
    IF isJson(contentType) THEN
      IF JsonParse(data) = ParseError
        THEN [state |-> "rejected", value |-> ParseError]
        ELSE [state |-> "rejected", value |-> HttpError(status, data)]
    ELSE [state |-> "rejected", value |-> Value("HttpError", status, <<>>)]
  ELSE IF data = "" THEN [state |-> "resolved", value |-> NullValue]
  ELSE IF ParseBody(data, contentType, path) = ParseError
    THEN [state |-> "rejected", value |-> ParseError]
    ELSE [state |-> "resolved", value |-> ParseBody(data, contentType, path)]

\* The "end" listener of the response body; body is what the "data"
\* listener has accumulated by then.
ApiBodyEnd(k, body) ==
  /\ kind = "request"
  /\ k \in DOMAIN attempts
  /\ attempts[k].phase = "reading"
  /\ attempts' = [attempts EXCEPT ![k].phase = "finished"]
  /\ last' = Event("end", k, resp.status, "null")
  /\ resp' = [resp EXCEPT !.data = body]
  /\ LET out == EndOutcome(resp.status, body, resp.contentType, options.path)
     IN promises' = Settle(promises, k, out.state, out.value)
  /\ UNCHANGED <<kind, destination, url, options, callerOptions, passed, headers, token,
                 piped, fired>>

\* request.abort() on a request that is still open.
Abort(a) ==
  IF a.phase \in {"created", "waiting", "redirected", "reading", "ignored"}
    THEN [a EXCEPT !.phase = "aborted"]
    ELSE a

\* The caller cancels the promise request returned: onCancel(() => request.abort()).
Cancel ==
  /\ kind = "request"
  /\ promises[1].state = "pending"
  /\ promises' = [promises EXCEPT ![1].state = "cancelled"]
  /\ attempts' = [attempts EXCEPT ![1] = Abort(@)]
  /\ last' = Event("cancel", 1, 0, "null")
  /\ UNCHANGED <<kind, destination, url, options, callerOptions, passed, headers, token,
                 piped, resp, fired>>

Next ==
  \/ \E u \in StartUrls, dest \in Destinations : Download(u, dest)
  \/ \E u \in StartUrls, proto \in CallerProtocols, m \in Methods, t \in Tokens :
       Request(u, proto, m, t)
  \/ \E k \in DOMAIN attempts : Socket(k)
  \/ \E k \in DOMAIN attempts : Timeout(k)
  \/ \E k \in DOMAIN attempts : TransportFailure(k)
  \/ \E k \in DOMAIN attempts, status \in DownloadStatuses, loc \in Locations \cup {"null"} :
       /\ loc # "null" => Len(attempts) < MaxAttempts
       /\ DownloadResponse(k, status, loc)
  \/ \E k \in DOMAIN attempts, error \in {NullValue, WriteError} : WriteDone(k, error)
  \/ \E k \in DOMAIN attempts, status \in ApiStatuses, loc \in Locations \cup {"null"},
         contentType \in ContentTypes :
       /\ loc # "null" => Len(attempts) < MaxAttempts
       /\ ApiResponse(k, status, loc, contentType)
  \/ \E k \in DOMAIN attempts, body \in Bodies : ApiBodyEnd(k, body)
  \/ Cancel

Spec == Init /\ [][Next]_vars

\* The server that answers every attempt with a redirect.
NextRedirects ==
  \/ \E u \in StartUrls, dest \in Destinations : Download(u, dest)
  \/ \E u \in StartUrls, proto \in CallerProtocols, m \in Methods, t \in Tokens :
       Request(u, proto, m, t)
  \/ \E k \in DOMAIN attempts : Socket(k)
  \/ \E k \in DOMAIN attempts, loc \in Locations :
       /\ Len(attempts) < MaxChain
       /\ DownloadResponse(k, 302, loc)
  \/ \E k \in DOMAIN attempts, loc \in Locations :
       /\ Len(attempts) < MaxChain
       /\ ApiResponse(k, 302, loc, "null")

SpecRedirects == Init /\ [][NextRedirects]_vars

\* The response handler of a redirected download attempt has returned
\* (lines 63 and 68) without reading the response or keeping the request:
\* once the server closes that connection nothing of the attempt is left,
\* and the oldest such attempt leaves the record of the call.
Release ==
  /\ kind = "download"
  /\ Len(attempts) >= 2
  /\ attempts[1].phase \in {"redirected", "aborted"}
  /\ attempts' = Tail(attempts)
  /\ piped' = [i \in DOMAIN piped |-> piped[i] - 1]
  /\ last' = Event("release", 0, 0, "null")
  /\ UNCHANGED <<kind, destination, url, options, callerOptions, passed, headers,
                 token, promises, resp, fired>>

\* The events by which the transport answers an issued download attempt.
DownloadProgress ==
  \/ \E k \in DOMAIN attempts : Socket(k)
  \/ \E k \in DOMAIN attempts, status \in DownloadStatuses, loc \in Locations \cup {"null"} :
       /\ loc # "null" => Len(attempts) < MaxAttempts
       /\ DownloadResponse(k, status, loc)
  \/ \E k \in DOMAIN attempts, error \in {NullValue, WriteError} : WriteDone(k, error)

\* A download call whose every attempt is eventually answered.
NextLive ==
  \/ \E u \in StartUrls, dest \in Destinations : Download(u, dest)
  \/ DownloadProgress
  \/ \E k \in DOMAIN attempts : Timeout(k)
  \/ \E k \in DOMAIN attempts : TransportFailure(k)
  \/ Release

SpecLive == Init /\ [][NextLive]_vars /\ WF_vars(DownloadProgress)

TypeOK ==
  /\ kind \in {"idle", "download", "request"}
  /\ Len(attempts) = Len(promises) \/ kind = "download"

\* ------------------------------------------------------------------ claims
Called == kind # "idle"
InFlight(a) == a.phase \in {"created", "waiting", "reading", "piping"}

\* C1: a download whose server keeps answering with a location header issues
\* at most maxRedirects + 1 attempts, and the redirect answered to attempt
\* maxRedirects + 1 rejects the call with "Too many redirects (> maxRedirects)".
C1_DownloadRedirectLimit ==
  kind = "download" =>
    /\ Len(attempts) <= maxRedirects + 1
    /\ (last.ev = "response" /\ last.att = maxRedirects + 1 /\ last.loc # "null")
         => promises[1] = [state |-> "rejected", value |-> TooManyRedirects(maxRedirects)]

\* C2: a request follows a bounded number of redirect hops: once the hop
\* count exceeds 10 the call rejects with "Too many redirects (> 10)" and
\* issues no further attempt (hop counts 0..10 may be followed, so the
\* attempt with hop count 11 is the last one).
C2_ApiRedirectLimit ==
  kind = "request" =>
    /\ Len(attempts) <= ApiMaxRedirects + 2
    /\ (last.ev = "response" /\ last.att = ApiMaxRedirects + 2 /\ last.loc # "null")
         => promises[1] = [state |-> "rejected", value |-> TooManyRedirects(ApiMaxRedirects)]

C4_DownloadErrorStatus ==
  (kind = "download" /\ last.ev = "response" /\ last.status >= 400) =>
    /\ promises[1] = [state |-> "rejected", value |-> StatusError(url, last.status)]
    /\ piped = <<>>

\* C5: a download starts writing the destination at most once, and only on
\* the response of the latest attempt with status < 400 and no location
\* header; a response carrying a location header is never piped.
C5_PipesOnlyFinalResponse ==
  [][(kind = "download" /\ piped' # piped) =>
       /\ piped = <<>>
       /\ piped' = <<Len(attempts')>>
       /\ last'.ev = "response" /\ last'.att = Len(attempts')
       /\ last'.status < 400 /\ last'.loc = "null"]_vars

\* C5 witness: after at least one redirect the final response is being
\* written to the destination.
C5_Witness ==
  /\ kind = "download" /\ Len(attempts) >= 2
  /\ piped = <<Len(attempts)>>
  /\ attempts[1].phase = "redirected"

\* C6: the download promise leaves pending for resolved only in the step in
\* which the write of the latest attempt's response completes without error,
\* its value is the destination the caller passed, which no hop changes, and
\* a write error leaves the promise rejected.
C6_ResolvesOnWriteCompletion ==
  /\ [][(kind = "download" /\ promises'[1].state = "resolved"
           /\ promises[1].state # "resolved") =>
          /\ last'.ev = "written" /\ last'.att = Len(attempts)
          /\ promises'[1].value = Value("path", 0, <<destination>>)]_vars
  /\ [][kind = "download" => destination' = destination]_vars
  /\ []((kind = "download" /\ last.ev = "writeError") => promises[1].state = "rejected")

\* C6 witness: a download resolved after following a redirect.
C6_Witness ==
  /\ kind = "download" /\ Len(attempts) >= 2
  /\ promises[1].state = "resolved"
  /\ last.ev = "written"

\* C7: a 204 response resolves the request call with the empty result,
\* whatever its headers; no body listener is attached and no redirect
\* attempt is started for it.
C7_NoContentResolves ==
  (kind = "request" /\ last.ev = "response" /\ last.status = 204) =>
    /\ promises[1].state = "resolved"
    /\ promises[1].value \in {NullValue, UndefinedValue}
    /\ last.att = Len(attempts)
    /\ attempts[last.att].phase = "ignored"

\* C8: a 404 response leaves the logical request call rejected with the
\* not-found error, whatever the response's headers are; when that response
\* is what settles the call, the error names the method, host and path of
\* the attempt that received it.
C8_NotFoundRejects ==
  [][(kind = "request" /\ last'.ev = "response" /\ last'.status = 404) =>
       /\ promises'[1].state = "rejected"
       /\ promises'[1].value.tag = "HttpError 404"
       /\ promises[1].state = "pending" => promises'[1].value = NotFoundError(options)]_vars

\* C9: once the caller has cancelled the request promise, no attempt of the
\* logical call is left in flight: the latest hop's request was aborted.
C9_CancelAbortsLatest ==
  (kind = "request" /\ promises[1].state = "cancelled") =>
    \A k \in DOMAIN attempts : ~InFlight(attempts[k])

\* C10: the timer of an attempt that was recognised as a redirect never
\* fires: a timeout always belongs to the latest attempt of the call.
C10_TimerScopedToAttempt ==
  last.ev = "timeout" => last.att = Len(attempts)

\* C11: when the body of a non-redirect response with status >= 400 other
\* than 404 has ended, the call is rejected with the error envelope of that
\* response, and the envelope carries a parsed body exactly when the
\* content type indicates JSON.
C11_ErrorEnvelope ==
  (kind = "request" /\ last.ev = "end" /\ last.status >= 400 /\ last.status # 404) =>
    /\ promises[1].state = "rejected"
    /\ promises[1].value.tag = "HttpError"
    /\ promises[1].value.num = last.status
    /\ (resp.contentType = "application/json") <=> (promises[1].value.text # <<>>)

\* The value C12 names: null for an empty body, else the JSON value when the
\* content type is JSON, else the YAML value when the path has ".yml", else
\* the text.
C12_Expected(data, contentType, path) ==
  CASE data = "" -> NullValue
    [] data # "" /\ contentType = "application/json" -> Value("json", 0, <<data>>)
    [] data # "" /\ contentType # "application/json" /\ path \in {"/a.yml", "/rel.yml"} ->
         Value("yaml", 0, <<data>>)
    [] OTHER -> Value("text", 0, <<data>>)

\* C12: when the body of a response with status < 400 ends and no parser
\* throws, the pending call resolves with the value fixed by the emptiness
\* of the body, the content type and the path of the attempt's options.
C12_ResolvedValue ==
  [][(/\ kind = "request" /\ last'.ev = "end" /\ last'.status < 400
      /\ promises[1].state = "pending"
      /\ resp'.contentType = "application/json" => resp'.data \in {"", "{\"a\":1}"})
     => promises'[1] = [state |-> "resolved",
                        value |-> C12_Expected(resp'.data, resp'.contentType, options.path)]]_vars

\* C12 witness: a JSON response to a request whose path contains ".yml"
\* resolved with the JSON value.
C12_Witness ==
  /\ kind = "request" /\ last.ev = "end" /\ last.status < 400
  /\ options.path = "/a.yml" /\ resp.contentType = "application/json"
  /\ promises[1].state = "resolved" /\ promises[1].value.tag = "json"

\* C13: every attempt of a request, redirected ones included, is issued with
\* protocol https, with the method the caller gave and, when a token was
\* given, with the authorization header equal to the token if it starts with
\* "Basic" and to "token <value>" otherwise; without a token the headers are
\* the caller's.
C13_AttemptDescriptor ==
  kind = "request" =>
    /\ options.protocol = "https:"
    /\ options.method = passed.options.method
    /\ token.given =>
         headers.authorization =
           IF Len(token.chars) >= 5 /\ token.chars[1] = "B" /\ token.chars[2] = "a"
                /\ token.chars[3] = "s" /\ token.chars[4] = "i" /\ token.chars[5] = "c"
             THEN token.chars
             ELSE <<"t", "o", "k", "e", "n", " ">> \o token.chars
    /\ ~token.given => headers = passed.headers

\* C13 witness: a call made with http: and a token was redirected to an
\* http: location and issued its second attempt.
C13_Witness ==
  /\ kind = "request" /\ Len(attempts) >= 2
  /\ passed.options.protocol = "http:" /\ token.given
  /\ last.ev = "response" /\ last.loc = "http://h2/r"
  /\ options.hostname = "h2"

\* C14: the hop count the k-th attempt of a logical call is started with is
\* k - 1, for download and for request.
C14_HopCount ==
  Called => attempts[Len(attempts)].redirectCount = Len(attempts) - 1

\* C16: a 404 answered to a request is terminal: the attempt that received
\* it stays the latest one (its location header is not followed) and no body
\* listener is attached to its response.
C16_NotFoundTerminal ==
  (kind = "request" /\ last.ev = "response" /\ last.status = 404) =>
    /\ last.att = Len(attempts)
    /\ attempts[last.att].phase = "ignored"

\* C19: a request leaves the options object the caller passed, and its
\* headers mapping, as they were when passed.
C19_CallerOptionsUnchanged ==
  kind = "request" =>
    /\ callerOptions = passed.options
    /\ headers = passed.headers

\* C17: a transport error or a timeout of the latest attempt rejects the
\* logical call with that error and starts no attempt; an attempt is added
\* only by a response that carries a location header, one at a time.
C17_NoRetries ==
  /\ [][(Called /\ last'.ev \in {"error", "timeout"} /\ last'.att = Len(attempts)) =>
          /\ Len(attempts') = Len(attempts)
          /\ promises'[1] =
               [state |-> "rejected",
                value |-> IF last'.ev = "error" THEN TransportError ELSE TimeoutError]]_vars
  /\ [][(Called /\ Len(attempts') # Len(attempts)) =>
          /\ Len(attempts') = Len(attempts) + 1
          /\ last'.ev = "response" /\ last'.loc # "null"]_vars

\* C18: when the timer of the latest attempt fires while the logical call is
\* pending, the call is rejected with "Request timed out" and that attempt's
\* request is aborted; every attempt has the timeout handler installed.
C18_TimeoutRejects ==
  /\ [][(Called /\ last'.ev = "timeout" /\ last'.att = Len(attempts)
           /\ promises[1].state = "pending") =>
          /\ promises'[1] = [state |-> "rejected", value |-> TimeoutError]
          /\ attempts'[last'.att].phase = "aborted"]_vars
  /\ [](\A k \in DOMAIN attempts : attempts[k].timeoutHandler)

\* C18 witness: the timer of a redirected call's latest attempt fired first
\* and rejected the call.
C18_Witness ==
  /\ Called /\ Len(attempts) >= 2
  /\ last.ev = "timeout" /\ last.att = Len(attempts) /\ fired = 1
  /\ promises[1] = [state |-> "rejected", value |-> TimeoutError]
  /\ attempts[last.att].phase = "aborted"

\* C15: when every issued attempt is eventually answered, a logical call
\* that was made eventually settles, whatever the server answers.
C15_EventuallySettles ==
  Called ~> (Called /\ promises[1].state # "pending")

====
